---- MODULE Spec2Model ----
(***************************************************************************)
(* Record-keeping layer of the dental clinic application                   *)
(* (Examen_Sistema_Odontologico.py): patient registry, appointment book    *)
(* with its observer list, treatment ledger and the two command wrappers.  *)
(* Python objects live in three heaps (objPaciente, objCita,               *)
(* objTratamiento); a reference is the index of the object in its heap.    *)
(* Texts that the code parses are tuples of one-character strings.         *)
(***************************************************************************)
EXTENDS Integers, Sequences, FiniteSets, TLC

\* Bounds of the exploration
MaxPacientes == 2
MaxCitas == 2
MaxTratamientos == 3
MaxObjetos == 3
MaxTopN == 3
MaxOyentes == 3

\* Python's None where an object or a result is expected: the reference 0
None == 0

(***************************************************************************)
(* datetime.strptime                                                       *)
(***************************************************************************)
Digitos == {"0", "1", "2", "3", "4", "5", "6", "7", "8", "9"}
Digitos19 == Digitos \ {"0"}
Blancos == {" ", "\t"}

ValorDigito(c) ==
    CASE c = "0" -> 0 [] c = "1" -> 1 [] c = "2" -> 2 [] c = "3" -> 3
      [] c = "4" -> 4 [] c = "5" -> 5 [] c = "6" -> 6 [] c = "7" -> 7
      [] c = "8" -> 8 [] c = "9" -> 9

\* The regular expression of each directive: its alternatives in the order
\* the regex engine tries them, each a sequence of character classes.
Directiva(k) ==
    CASE k = "Y" -> << <<Digitos, Digitos, Digitos, Digitos>> >>
      [] k = "m" -> << <<{"1"}, {"0", "1", "2"}>>, <<{"0"}, Digitos19>>, <<Digitos19>> >>
      [] k = "d" -> << <<{"3"}, {"0", "1"}>>, <<{"1", "2"}, Digitos>>, <<{"0"}, Digitos19>>,
                       <<Digitos19>>, <<{" "}, Digitos19>> >>
      [] k = "H" -> << <<{"2"}, {"0", "1", "2", "3"}>>, <<{"0", "1"}, Digitos>>, <<Digitos>> >>
      [] k = "M" -> << <<{"0", "1", "2", "3", "4", "5"}, Digitos>>, <<Digitos>> >>

\* A format as the sequence of regex items strptime compiles it to: a
\* directive ("dir"), a literal character ("lit") or a run of white space
\* ("esp", the regex \s+).
Dir(k) == [t |-> "dir", k |-> k]
Lit(c) == [t |-> "lit", k |-> c]
Esp == [t |-> "esp", k |-> " "]

\* "%Y-%m-%d"
FormatoFecha == <<Dir("Y"), Lit("-"), Dir("m"), Lit("-"), Dir("d")>>
\* "%Y-%m-%d %H:%M"
FormatoFechaHora ==
    <<Dir("Y"), Lit("-"), Dir("m"), Lit("-"), Dir("d"), Esp, Dir("H"), Lit(":"), Dir("M")>>

\* Whether the characters of s from position i on start with the classes cs.
Coincide(cs, s, i) ==
    /\ i + Len(cs) - 1 <= Len(s)
    /\ \A j \in 1..Len(cs) : s[i + j - 1] \in cs[j]

NoCoincide == [ok |-> FALSE, fin |-> 0, grupos |-> <<>>]

\* Backtracking match of the items re[k..] against s from position i: the
\* first match in the engine's order, with the text of every directive.
RECURSIVE Emparejar(_, _, _, _)
RECURSIVE ProbarAlternativas(_, _, _, _, _)
RECURSIVE ProbarBlancos(_, _, _, _, _)

ProbarAlternativas(re, k, s, i, a) ==
    LET alts == Directiva(re[k].k) IN
    IF a > Len(alts) THEN NoCoincide
    ELSE IF Coincide(alts[a], s, i)
         THEN LET resto == Emparejar(re, k + 1, s, i + Len(alts[a])) IN
              IF resto.ok
              THEN [ok |-> TRUE, fin |-> resto.fin,
                    grupos |-> <<SubSeq(s, i, i + Len(alts[a]) - 1)>> \o resto.grupos]
              ELSE ProbarAlternativas(re, k, s, i, a + 1)
         ELSE ProbarAlternativas(re, k, s, i, a + 1)

\* \s+ is greedy: the longest run first, then shorter ones, never empty.
ProbarBlancos(re, k, s, i, n) ==
    IF n < 1 THEN NoCoincide
    ELSE LET resto == Emparejar(re, k + 1, s, i + n) IN
         IF resto.ok THEN resto ELSE ProbarBlancos(re, k, s, i, n - 1)

LargoBlancos(s, i) ==
    LET fin == {j \in i..Len(s) : \A x \in i..j : s[x] \in Blancos} IN Cardinality(fin)

Emparejar(re, k, s, i) ==
    IF k > Len(re) THEN [ok |-> TRUE, fin |-> i, grupos |-> <<>>]
    ELSE IF re[k].t = "dir" THEN ProbarAlternativas(re, k, s, i, 1)
    ELSE IF re[k].t = "lit"
         THEN IF i <= Len(s) /\ s[i] = re[k].k THEN Emparejar(re, k + 1, s, i + 1)
              ELSE NoCoincide
    ELSE ProbarBlancos(re, k, s, i, LargoBlancos(s, i))

\* int() of a directive's text (int() skips the blank the %d directive allows).
RECURSIVE Entero(_)
Entero(g) ==
    IF g = <<>> THEN 0
    ELSE IF g[Len(g)] \in Digitos
         THEN 10 * Entero(SubSeq(g, 1, Len(g) - 1)) + ValorDigito(g[Len(g)])
         ELSE Entero(SubSeq(g, 1, Len(g) - 1))

EsBisiesto(y) == (y % 4 = 0) /\ ((y % 100 # 0) \/ (y % 400 = 0))

DiasDelMes(y, m) ==
    IF m = 2 THEN (IF EsBisiesto(y) THEN 29 ELSE 28)
    ELSE IF m \in {4, 6, 9, 11} THEN 30 ELSE 31

ErrorDeValor == [ok |-> FALSE, valor |-> None]

\* The datetime of the fields a match found, or ValueError when the year is 0
\* or the month has no such day.
Convertir(y, m, d, h, mi) ==
    IF y < 1 \/ d > DiasDelMes(y, m) THEN ErrorDeValor
    ELSE [ok |-> TRUE,
          valor |-> [year |-> y, month |-> m, day |-> d, hour |-> h, minute |-> mi]]

\* The n-th field of a match, 0 when the format has no such directive
Campo(grupos, n) == IF Len(grupos) >= n THEN Entero(grupos[n]) ELSE 0

\* The outcome of a match found: ValueError when the text does not match or
\* text remains after the match.
DeCoincidencia(found, texto) ==
    IF ~found.ok THEN ErrorDeValor
    ELSE IF found.fin # Len(texto) + 1 THEN ErrorDeValor
    ELSE Convertir(Campo(found.grupos, 1), Campo(found.grupos, 2), Campo(found.grupos, 3),
                   Campo(found.grupos, 4), Campo(found.grupos, 5))

\* What datetime.strptime(texto, formato) computes: the datetime, or ValueError
_strptime(texto, formato) == DeCoincidencia(Emparejar(formato, 1, texto, 1), texto)

(***************************************************************************)
(* Inputs                                                                  *)
(***************************************************************************)
\* A str argument that was not given (Python's None where a str is expected).
\* A str is a tuple of characters, so this tuple is no str.
Nulo == <<"None">>

\* bool(v) of a str-or-None argument
Verdadero(v) == v # Nulo /\ v # <<>>

JuanPerez == <<"J", "u", "a", "n">>
AnaLopez == <<"A", "n", "a">>
Nombres == {JuanPerez, AnaLopez}
Telefono1 == <<"5", "5", "5", "-", "1", "2", "3", "4">>
Telefono2 == <<"5", "5", "5", "-", "5", "6", "7", "8">>
Direccion1 == <<"C", "a", "l", "l", "e", " ", "1">>

\* Birth and treatment date texts: well formed, well formed without the
\* leading zero, day first, and a day that does not exist.
Fecha1 == <<"1", "9", "8", "0", "-", "0", "5", "-", "1", "5">>
Fecha1Corta == <<"1", "9", "8", "0", "-", "5", "-", "1", "5">>
FechaDiaPrimero == <<"1", "5", "/", "0", "5", "/", "1", "9", "8", "0">>
FechaInexistente == <<"1", "9", "8", "0", "-", "0", "2", "-", "3", "0">>
Fechas == {Fecha1, Fecha1Corta, FechaDiaPrimero, FechaInexistente}

\* Appointment date-time texts: two that parse to the same datetime, another
\* hour of the same day, day first, and a day that does not exist.
FechaHora1 == <<"2", "0", "2", "4", "-", "0", "6", "-", "0", "1", " ", "1", "0", ":", "0", "0">>
FechaHora1Corta == <<"2", "0", "2", "4", "-", "6", "-", "1", " ", "1", "0", ":", "0", "0">>
FechaHora2 == <<"2", "0", "2", "4", "-", "0", "6", "-", "0", "1", " ", "1", "4", ":", "0", "0">>
FechaHoraDiaPrimero == <<"0", "1", "/", "0", "6", "/", "2", "0", "2", "4", " ", "1", "0", ":", "0", "0">>
FechaHoraInexistente == <<"2", "0", "2", "4", "-", "0", "2", "-", "3", "0", " ", "1", "0", ":", "0", "0">>
FechasHora ==
    {FechaHora1, FechaHora1Corta, FechaHora2, FechaHoraDiaPrimero, FechaHoraInexistente}

Limpieza == <<"L", "i", "m", "p", "i", "e", "z", "a">>
Motivos == {Limpieza}

DescLimpieza == <<"C", "l", "e", "a", "n", "i", "n", "g">>
DescLimpiezaMin == <<"c", "l", "e", "a", "n", "i", "n", "g", " ">>
DescEmpaste == <<"F", "i", "l", "l", "i", "n", "g">>
Descripciones == {DescLimpieza, DescLimpiezaMin, DescEmpaste}
DrSonrisas == <<"D", "r", ".", " ", "S", "o", "n", "r", "i", "s", "a", "s">>
Odontologos == {DrSonrisas}

\* Texts for the appointments-by-day report: an appointment on another day, and
\* the two days as the dialog's answer
FechaHoraOtroDia == <<"2", "0", "2", "4", "-", "0", "6", "-", "0", "2", " ", "1", "0", ":", "0", "0">>
FechaDia1 == <<"2", "0", "2", "4", "-", "0", "6", "-", "0", "1">>
FechaDia2 == <<"2", "0", "2", "4", "-", "6", "-", "2">>
FechasReporte == {FechaHoraOtroDia, FechaDia1, FechaDia2}

\* datetime.strptime on the texts and formats the calls below pass, computed once
RECURSIVE Tabular(_)
Tabular(S) ==
    IF S = {} THEN <<>>
    ELSE LET x == CHOOSE y \in S : TRUE IN (x :> _strptime(x[1], x[2])) @@ Tabular(S \ {x})

TablaStrptime ==
    Tabular((Fechas \cup FechasHora \cup FechasReporte) \X {FormatoFecha, FormatoFechaHora})

strptime(texto, formato) == TablaStrptime[<<texto, formato>>]

\* The SistemaCitas instances: the application's one and a second one.
Sistemas == {"clinica", "otra"}
\* The IObservador instances
Observadores == {"recordatorio"}
\* IObservador instances for the Observable alone: the reminder and two more
Oyentes == Observadores \cup {"segundo", "tercero"}
\* IObservador instances whose actualizar calls separar on the Observable that is
\* notifying them: one removes itself, one removes the reminder
OyentesConBaja == {"baja_propia", "baja_ajena"}
\* A text passed to notificar
Aviso1 == <<"a", "v", "i", "s", "o">>
Mensajes == {Aviso1}

(***************************************************************************)
(* State                                                                   *)
(***************************************************************************)
VARIABLES
    pacientes,                \* SistemaGestionPacientes.pacientes (references)
    siguiente_id_paciente,    \* SistemaGestionPacientes._siguiente_id_paciente
    objPaciente,              \* the Paciente objects
    citas,                    \* SistemaCitas.citas of each SistemaCitas (references)
    observadores,             \* Observable._observadores of each SistemaCitas
    objCita,                  \* the Cita objects
    Cita_contador_id,         \* Cita._contador_id
    registro_tratamientos,    \* SistemaHistorialTratamientos.registro_tratamientos
    objTratamiento,           \* the Tratamiento objects
    Tratamiento_contador_id,  \* Tratamiento._contador_id
    ult                       \* the last call: operation, result, error dialog, deliveries

vars == <<pacientes, siguiente_id_paciente, objPaciente, citas, observadores, objCita,
          Cita_contador_id, registro_tratamientos, objTratamiento,
          Tratamiento_contador_id, ult>>

varsPacientes == <<pacientes, siguiente_id_paciente>>
varsCitas == <<citas, objCita, Cita_contador_id>>
varsTratamientos == <<registro_tratamientos, objTratamiento, Tratamiento_contador_id>>

\* The record of a call
Llamada(op, ret, aviso, entregas) ==
    [op |-> op, ret |-> ret, aviso |-> aviso, entregas |-> entregas, excepcion |-> ""]

SinAviso == ""
AvisoFormato == "Error de Formato"
AvisoOcupado == "Error: Horario ya ocupado"

RefsPaciente == 1..Len(objPaciente)
RefsCita == 1..Len(objCita)
RefsTratamiento == 1..Len(objTratamiento)

(***************************************************************************)
(* Domain classes                                                          *)
(***************************************************************************)
\* Paciente.__init__
Paciente(id_paciente, nombre, telefono, direccion, fecha_nacimiento, historial_medico) ==
    [id_paciente |-> id_paciente, nombre |-> nombre, telefono |-> telefono,
     direccion |-> direccion, fecha_nacimiento |-> fecha_nacimiento,
     historial_medico |-> historial_medico, tratamientos |-> <<>>]

\* Mutant of actualizar_info: every given value is stored, also an empty one
actualizar_info_tambien_vacios(o, nombre, telefono, direccion, fecha_nacimiento, historial_medico) ==
    [o EXCEPT
        !.nombre = IF nombre # Nulo THEN nombre ELSE @,
        !.telefono = IF telefono # Nulo THEN telefono ELSE @,
        !.direccion = IF direccion # Nulo THEN direccion ELSE @,
        !.fecha_nacimiento = IF fecha_nacimiento # Nulo THEN fecha_nacimiento ELSE @,
        !.historial_medico = IF historial_medico # Nulo THEN historial_medico ELSE @]

\* Paciente.actualizar_info on the object o
actualizar_info(o, nombre, telefono, direccion, fecha_nacimiento, historial_medico) ==
    [o EXCEPT
        !.nombre = IF Verdadero(nombre) THEN nombre ELSE @,
        !.telefono = IF Verdadero(telefono) THEN telefono ELSE @,
        !.direccion = IF Verdadero(direccion) THEN direccion ELSE @,
        !.fecha_nacimiento = IF Verdadero(fecha_nacimiento) THEN fecha_nacimiento ELSE @,
        !.historial_medico = IF Verdadero(historial_medico) THEN historial_medico ELSE @]

\* Mutant of agregar_tratamiento: the treatment is not added to the history
agregar_tratamiento_omitido(o, tratamiento) == o

\* Paciente.agregar_tratamiento on the object o
agregar_tratamiento(o, tratamiento) ==
    [o EXCEPT !.tratamientos = Append(@, tratamiento)]

\* Mutant of Cita.__init__: the id is taken from one counter shared with Tratamiento
Cita_contador_compartido(paciente, fecha_hora, motivo) ==
    [id_cita |-> Cita_contador_id + Tratamiento_contador_id + 1, paciente |-> paciente,
     fecha_hora |-> fecha_hora, motivo |-> motivo, estado |-> "Programada"]

\* Cita.__init__: takes the next value of the class-wide counter
Cita(paciente, fecha_hora, motivo) ==
    [id_cita |-> Cita_contador_id + 1, paciente |-> paciente, fecha_hora |-> fecha_hora,
     motivo |-> motivo, estado |-> "Programada"]

\* Tratamiento.__init__: takes the next value of the class-wide counter
Tratamiento(paciente, fecha, descripcion, odontologo) ==
    [id_tratamiento |-> Tratamiento_contador_id + 1, paciente |-> paciente, fecha |-> fecha,
     descripcion |-> descripcion, odontologo |-> odontologo]

(***************************************************************************)
(* SistemaGestionPacientes                                                 *)
(***************************************************************************)
\* Mutant of registrar_paciente: a rejected birth date still takes an id
registrar_paciente_cuenta_fallos(nombre, telefono, direccion, fecha_nacimiento, historial_medico) ==
    IF ~strptime(fecha_nacimiento, FormatoFecha).ok
    THEN [ret |-> None, aviso |-> AvisoFormato, pacientes |-> pacientes,
          siguiente |-> siguiente_id_paciente + 1, objPaciente |-> objPaciente]
    ELSE LET paciente == Len(objPaciente) + 1 IN
         [ret |-> paciente, aviso |-> SinAviso,
          pacientes |-> Append(pacientes, paciente),
          siguiente |-> siguiente_id_paciente + 1,
          objPaciente |-> Append(objPaciente,
              Paciente(siguiente_id_paciente, nombre, telefono, direccion,
                       fecha_nacimiento, historial_medico))]

\* The result and the new registry state of registrar_paciente
registrar_paciente(nombre, telefono, direccion, fecha_nacimiento, historial_medico) ==
    IF ~strptime(fecha_nacimiento, FormatoFecha).ok
    THEN [ret |-> None, aviso |-> AvisoFormato, pacientes |-> pacientes,
          siguiente |-> siguiente_id_paciente, objPaciente |-> objPaciente]
    ELSE LET paciente == Len(objPaciente) + 1 IN
         [ret |-> paciente, aviso |-> SinAviso,
          pacientes |-> Append(pacientes, paciente),
          siguiente |-> siguiente_id_paciente + 1,
          objPaciente |-> Append(objPaciente,
              Paciente(siguiente_id_paciente, nombre, telefono, direccion,
                       fecha_nacimiento, historial_medico))]

\* buscar_paciente_por_id: the first patient of the registry with that id
buscar_paciente_por_id(id_paciente) ==
    LET hallados == {i \in 1..Len(pacientes) : objPaciente[pacientes[i]].id_paciente = id_paciente}
    IN IF hallados = {} THEN None
       ELSE pacientes[CHOOSE i \in hallados : \A j \in hallados : i <= j]

\* The result and the new objects of actualizar_paciente
actualizar_paciente(id_paciente, nombre, telefono, direccion, fecha_nacimiento, historial_medico) ==
    LET paciente == buscar_paciente_por_id(id_paciente) IN
    IF paciente # None
    THEN [ret |-> TRUE,
          objPaciente |-> [objPaciente EXCEPT ![paciente] =
              actualizar_info(@, nombre, telefono, direccion, fecha_nacimiento, historial_medico)]]
    ELSE [ret |-> FALSE, objPaciente |-> objPaciente]

\* obtener_todos_los_pacientes
obtener_todos_los_pacientes == pacientes

(***************************************************************************)
(* Observable                                                              *)
(***************************************************************************)
EnSecuencia(x, s) == \E i \in 1..Len(s) : s[i] = x

\* list.remove: without the first occurrence of x
Quitar(s, x) ==
    LET i == CHOOSE j \in 1..Len(s) : s[j] = x /\ \A k \in 1..(j - 1) : s[k] # x
    IN SubSeq(s, 1, i - 1) \o SubSeq(s, i + 1, Len(s))

\* Mutant of adjuntar: the observer is appended without the membership check
adjuntar_sin_chequeo(sistema, observador) == Append(observadores[sistema], observador)

\* Observable.adjuntar: the new observer list of sistema
adjuntar(sistema, observador) ==
    IF ~EnSecuencia(observador, observadores[sistema])
    THEN Append(observadores[sistema], observador)
    ELSE observadores[sistema]

\* Mutant of notificar: the observers are visited from the last to the first
notificar_al_reves(sistema, mensaje) ==
    [i \in 1..Len(observadores[sistema]) |->
        [observador |-> observadores[sistema][Len(observadores[sistema]) + 1 - i],
         mensaje |-> mensaje]]

\* Observable.notificar: the deliveries (observador.actualizar calls) it makes, in order
notificar(sistema, mensaje) ==
    [i \in 1..Len(observadores[sistema]) |->
        [observador |-> observadores[sistema][i], mensaje |-> mensaje]]

\* The observer that the actualizar of o passes to separar, "" when it calls none
\* (RecordatorioCita.actualizar only shows a dialog)
BajaDe(o) ==
    IF o = "baja_propia" THEN "baja_propia"
    ELSE IF o = "baja_ajena" THEN "recordatorio"
    ELSE ""

\* The for loop of notificar over the live list while actualizar may call separar:
\* the list iterator holds an index, so the loop ends when the index reaches the
\* current length; a ValueError of separar leaves the loop. i is the index of the
\* next element (from 1).
RECURSIVE Recorrer(_, _, _, _)
Recorrer(lista, i, mensaje, entregas) ==
    IF i > Len(lista)
    THEN [excepcion |-> "", observadores |-> lista, entregas |-> entregas]
    ELSE IF BajaDe(lista[i]) = ""
    THEN Recorrer(lista, i + 1, mensaje,
                  Append(entregas, [observador |-> lista[i], mensaje |-> mensaje]))
    ELSE IF ~EnSecuencia(BajaDe(lista[i]), lista)
    THEN [excepcion |-> "ValueError", observadores |-> lista,
          entregas |-> Append(entregas, [observador |-> lista[i], mensaje |-> mensaje])]
    ELSE Recorrer(Quitar(lista, BajaDe(lista[i])), i + 1, mensaje,
                  Append(entregas, [observador |-> lista[i], mensaje |-> mensaje]))

\* Observable.notificar when the observers may call separar from actualizar: the
\* deliveries, the list it leaves and the exception that ends it, if any
notificar_con_bajas(sistema, mensaje) == Recorrer(observadores[sistema], 1, mensaje, <<>>)

(***************************************************************************)
(* SistemaCitas                                                            *)
(***************************************************************************)
\* Mutant of HorarioOcupado: the datetime is compared with the text, never equal
HorarioOcupado_compara_texto(sistema, dt_objeto) == FALSE

\* Mutant of HorarioOcupado: the estado of the existing appointment is ignored
HorarioOcupado_sin_estado(sistema, dt_objeto) ==
    \E i \in 1..Len(citas[sistema]) : objCita[citas[sistema][i]].fecha_hora = dt_objeto

\* The availability check of agendar_cita
HorarioOcupado(sistema, dt_objeto) ==
    \E i \in 1..Len(citas[sistema]) :
        /\ objCita[citas[sistema][i]].fecha_hora = dt_objeto
        /\ objCita[citas[sistema][i]].estado = "Programada"

\* Mutant of agendar_cita: the availability check is skipped
agendar_cita_sin_chequeo(sistema, paciente, fecha_hora_str, motivo) ==
    LET dt_objeto == strptime(fecha_hora_str, FormatoFechaHora) IN
    IF ~dt_objeto.ok
    THEN [ret |-> None, aviso |-> AvisoFormato, citas |-> citas, objCita |-> objCita,
          contador |-> Cita_contador_id]
    ELSE LET cita == Len(objCita) + 1
             nueva == Cita(paciente, dt_objeto.valor, motivo)
         IN [ret |-> cita, aviso |-> SinAviso,
             citas |-> [citas EXCEPT ![sistema] = Append(@, cita)],
             objCita |-> Append(objCita, nueva),
             contador |-> nueva.id_cita]

\* The result and the new appointment state of agendar_cita
agendar_cita(sistema, paciente, fecha_hora_str, motivo) ==
    LET dt_objeto == strptime(fecha_hora_str, FormatoFechaHora) IN
    IF ~dt_objeto.ok
    THEN [ret |-> None, aviso |-> AvisoFormato, citas |-> citas, objCita |-> objCita,
          contador |-> Cita_contador_id]
    ELSE IF HorarioOcupado(sistema, dt_objeto.valor)
    THEN [ret |-> None, aviso |-> AvisoOcupado, citas |-> citas, objCita |-> objCita,
          contador |-> Cita_contador_id]
    ELSE LET cita == Len(objCita) + 1
             nueva == Cita(paciente, dt_objeto.valor, motivo)
         IN [ret |-> cita, aviso |-> SinAviso,
             citas |-> [citas EXCEPT ![sistema] = Append(@, cita)],
             objCita |-> Append(objCita, nueva),
             contador |-> nueva.id_cita]

\* Mutant of cancelar_cita: cancelling again restores the appointment
cancelar_cita_alterna(sistema, cita) ==
    IF EnSecuencia(cita, citas[sistema])
    THEN [ret |-> TRUE, citas |-> citas,
          objCita |-> [objCita EXCEPT ![cita].estado =
                          IF @ = "Programada" THEN "Cancelada" ELSE "Programada"]]
    ELSE [ret |-> FALSE, citas |-> citas, objCita |-> objCita]

\* Mutant of cancelar_cita: the appointment is also removed from the collection
cancelar_cita_quitando(sistema, cita) ==
    IF EnSecuencia(cita, citas[sistema])
    THEN [ret |-> TRUE, citas |-> [citas EXCEPT ![sistema] = Quitar(@, cita)],
          objCita |-> [objCita EXCEPT ![cita].estado = "Cancelada"]]
    ELSE [ret |-> FALSE, citas |-> citas, objCita |-> objCita]

\* Mutant of cancelar_cita: membership in the collection is not checked
cancelar_cita_sin_pertenencia(sistema, cita) ==
    [ret |-> TRUE, citas |-> citas,
     objCita |-> [objCita EXCEPT ![cita].estado = "Cancelada"]]

\* The result and the new appointment state of cancelar_cita
cancelar_cita(sistema, cita) ==
    IF EnSecuencia(cita, citas[sistema])
    THEN [ret |-> TRUE, citas |-> citas,
          objCita |-> [objCita EXCEPT ![cita].estado = "Cancelada"]]
    ELSE [ret |-> FALSE, citas |-> citas, objCita |-> objCita]

\* Mutant of obtener_citas_por_paciente: the estado is not filtered
obtener_citas_por_paciente_sin_estado(sistema, paciente) ==
    SelectSeq(citas[sistema], LAMBDA c : objCita[c].paciente = paciente)

\* obtener_citas_por_paciente
obtener_citas_por_paciente(sistema, paciente) ==
    SelectSeq(citas[sistema],
              LAMBDA c : objCita[c].paciente = paciente /\ objCita[c].estado = "Programada")

\* obtener_todas_las_citas_programadas
obtener_todas_las_citas_programadas(sistema) ==
    SelectSeq(citas[sistema], LAMBDA c : objCita[c].estado = "Programada")

(***************************************************************************)
(* SistemaHistorialTratamientos                                            *)
(***************************************************************************)
\* Mutant of registrar_tratamiento: the Tratamiento is built before the date is
\* checked, so a rejected date still takes an id
registrar_tratamiento_contador_antes(paciente, fecha_str, descripcion, odontologo) ==
    LET dt_objeto == strptime(fecha_str, FormatoFecha) IN
    IF ~dt_objeto.ok
    THEN [ret |-> None, aviso |-> AvisoFormato, objPaciente |-> objPaciente,
          registro |-> registro_tratamientos, objTratamiento |-> objTratamiento,
          contador |-> Tratamiento_contador_id + 1]
    ELSE LET tratamiento == Len(objTratamiento) + 1
             nuevo == Tratamiento(paciente, dt_objeto.valor, descripcion, odontologo)
         IN [ret |-> tratamiento, aviso |-> SinAviso,
             objPaciente |-> [objPaciente EXCEPT ![paciente] = agregar_tratamiento(@, tratamiento)],
             registro |-> Append(registro_tratamientos, tratamiento),
             objTratamiento |-> Append(objTratamiento, nuevo),
             contador |-> nuevo.id_tratamiento]

\* The result and the new treatment state of registrar_tratamiento
registrar_tratamiento(paciente, fecha_str, descripcion, odontologo) ==
    LET dt_objeto == strptime(fecha_str, FormatoFecha) IN
    IF ~dt_objeto.ok
    THEN [ret |-> None, aviso |-> AvisoFormato, objPaciente |-> objPaciente,
          registro |-> registro_tratamientos, objTratamiento |-> objTratamiento,
          contador |-> Tratamiento_contador_id]
    ELSE LET tratamiento == Len(objTratamiento) + 1
             nuevo == Tratamiento(paciente, dt_objeto.valor, descripcion, odontologo)
         IN [ret |-> tratamiento, aviso |-> SinAviso,
             objPaciente |-> [objPaciente EXCEPT ![paciente] = agregar_tratamiento(@, tratamiento)],
             registro |-> Append(registro_tratamientos, tratamiento),
             objTratamiento |-> Append(objTratamiento, nuevo),
             contador |-> nuevo.id_tratamiento]

\* obtener_tratamientos_por_paciente
obtener_tratamientos_por_paciente(paciente) == objPaciente[paciente].tratamientos

\* str.lower on the letters of the alphabet
Mayusculas == <<"A", "B", "C", "D", "E", "F", "G", "H", "I", "J", "K", "L", "M",
                "N", "O", "P", "Q", "R", "S", "T", "U", "V", "W", "X", "Y", "Z">>
Minusculas == <<"a", "b", "c", "d", "e", "f", "g", "h", "i", "j", "k", "l", "m",
                "n", "o", "p", "q", "r", "s", "t", "u", "v", "w", "x", "y", "z">>

lower(s) ==
    [i \in 1..Len(s) |->
        IF \E k \in 1..Len(Mayusculas) : Mayusculas[k] = s[i]
        THEN Minusculas[CHOOSE k \in 1..Len(Mayusculas) : Mayusculas[k] = s[i]]
        ELSE s[i]]

\* str.strip: without the blanks before the first and after the last other character
strip(s) ==
    LET otros == {i \in 1..Len(s) : s[i] \notin Blancos} IN
    IF otros = {} THEN <<>>
    ELSE SubSeq(s, CHOOSE i \in otros : \A j \in otros : i <= j,
                   CHOOSE i \in otros : \A j \in otros : i >= j)

\* conteo_tratamientos[desc] = conteo_tratamientos.get(desc, 0) + 1 on a dict kept
\* as the sequence of its items in insertion order
Contar(conteo, desc) ==
    IF \E i \in 1..Len(conteo) : conteo[i].clave = desc
    THEN [i \in 1..Len(conteo) |->
            IF conteo[i].clave = desc
            THEN [clave |-> desc, cuenta |-> conteo[i].cuenta + 1]
            ELSE conteo[i]]
    ELSE Append(conteo, [clave |-> desc, cuenta |-> 1])

\* conteo_tratamientos after the loop over the first n treatments of the ledger
RECURSIVE conteo_tratamientos(_)
conteo_tratamientos(n) ==
    IF n = 0 THEN <<>>
    ELSE Contar(conteo_tratamientos(n - 1),
                lower(strip(objTratamiento[registro_tratamientos[n]].descripcion)))

\* Mutant of Insertar: an item goes before the items of the same count
Insertar_antes_de_iguales(ordenados, item) ==
    LET k == Cardinality({i \in 1..Len(ordenados) : ordenados[i].cuenta > item.cuenta}) IN
    SubSeq(ordenados, 1, k) \o <<item>> \o SubSeq(ordenados, k + 1, Len(ordenados))

\* One step of sorted(..., key=item[1], reverse=True), a stable sort: the item goes
\* after the items already placed whose count is greater or equal
Insertar(ordenados, item) ==
    LET k == Cardinality({i \in 1..Len(ordenados) : ordenados[i].cuenta >= item.cuenta}) IN
    SubSeq(ordenados, 1, k) \o <<item>> \o SubSeq(ordenados, k + 1, Len(ordenados))

\* sorted(items, key=lambda item: item[1], reverse=True) of the first n items
RECURSIVE tratamientos_ordenados(_, _)
tratamientos_ordenados(items, n) ==
    IF n = 0 THEN <<>> ELSE Insertar(tratamientos_ordenados(items, n - 1), items[n])

\* tratamientos_ordenados[:top_n] for top_n >= 0
Recortar(ordenados, top_n) ==
    SubSeq(ordenados, 1, IF top_n < Len(ordenados) THEN top_n ELSE Len(ordenados))

\* sorted(conteo.items(), ...) sliced to top_n
Resumir(conteo, top_n) == Recortar(tratamientos_ordenados(conteo, Len(conteo)), top_n)

\* obtener_tratamientos_mas_comunes: the dict returned, as the sequence of its items
obtener_tratamientos_mas_comunes(top_n) ==
    IF registro_tratamientos = <<>> THEN <<>>
    ELSE Resumir(conteo_tratamientos(Len(registro_tratamientos)), top_n)

\* Mutant of separar: an absent observer is ignored without an error
separar_sin_error(sistema, observador) ==
    IF EnSecuencia(observador, observadores[sistema])
    THEN [excepcion |-> "", observadores |-> Quitar(observadores[sistema], observador)]
    ELSE [excepcion |-> "", observadores |-> observadores[sistema]]

\* Observable.separar: list.remove raises ValueError when the observer is absent
separar(sistema, observador) ==
    IF EnSecuencia(observador, observadores[sistema])
    THEN [excepcion |-> "", observadores |-> Quitar(observadores[sistema], observador)]
    ELSE [excepcion |-> "ValueError", observadores |-> observadores[sistema]]

(***************************************************************************)
(* Command wrappers                                                        *)
(***************************************************************************)
CaracterDigito(n) ==
    CASE n = 0 -> "0" [] n = 1 -> "1" [] n = 2 -> "2" [] n = 3 -> "3" [] n = 4 -> "4"
      [] n = 5 -> "5" [] n = 6 -> "6" [] n = 7 -> "7" [] n = 8 -> "8" [] n = 9 -> "9"

DosDigitos(n) == <<CaracterDigito((n \div 10) % 10), CaracterDigito(n % 10)>>

\* str(datetime) as the f-string of CancelarCitaComando formats it
str_datetime(dt) ==
    DosDigitos(dt.year \div 100) \o DosDigitos(dt.year % 100) \o <<"-">> \o DosDigitos(dt.month)
        \o <<"-">> \o DosDigitos(dt.day) \o <<" ">> \o DosDigitos(dt.hour) \o <<":">>
        \o DosDigitos(dt.minute) \o <<":", "0", "0">>

\* The f-strings of the two commands: the template and the two values it holds
MensajeAgendada(paciente, fecha_hora) ==
    [plantilla |-> "Nueva cita agendada para {} el {}.",
     nombre |-> objPaciente[paciente].nombre, fecha_hora |-> fecha_hora]

MensajeCancelada(cita) ==
    [plantilla |-> "Cita cancelada para {} el {}.",
     nombre |-> objPaciente[objCita[cita].paciente].nombre,
     fecha_hora |-> str_datetime(objCita[cita].fecha_hora)]

\* Mutant of AgendarCitaComando.ejecutar: the observers are notified whatever
\* agendar_cita returned
AgendarCitaComando_ejecutar_notifica_siempre(sistema, paciente, fecha_hora, motivo) ==
    LET r == agendar_cita(sistema, paciente, fecha_hora, motivo) IN
    [ret |-> r.ret # None, aviso |-> r.aviso, cita |-> r.ret,
     entregas |-> notificar(sistema, MensajeAgendada(paciente, fecha_hora)),
     citas |-> r.citas, objCita |-> r.objCita, contador |-> r.contador]

\* AgendarCitaComando.ejecutar: the result, the deliveries and agendar_cita's new state
AgendarCitaComando_ejecutar(sistema, paciente, fecha_hora, motivo) ==
    LET r == agendar_cita(sistema, paciente, fecha_hora, motivo) IN
    [ret |-> r.ret # None, aviso |-> r.aviso, cita |-> r.ret,
     entregas |-> IF r.ret # None
                  THEN notificar(sistema, MensajeAgendada(paciente, fecha_hora))
                  ELSE <<>>,
     citas |-> r.citas, objCita |-> r.objCita, contador |-> r.contador]

\* Mutant of CancelarCitaComando.ejecutar: an appointment that is already Cancelada
\* is reported as not cancelled and nothing is delivered
CancelarCitaComando_ejecutar_solo_programada(sistema, cita) ==
    LET r == cancelar_cita(sistema, cita) IN
    [ret |-> r.ret /\ objCita[cita].estado = "Programada",
     entregas |-> IF r.ret /\ objCita[cita].estado = "Programada"
                  THEN notificar(sistema, MensajeCancelada(cita)) ELSE <<>>,
     citas |-> r.citas, objCita |-> r.objCita]

\* CancelarCitaComando.ejecutar: the result, the deliveries and cancelar_cita's new state
CancelarCitaComando_ejecutar(sistema, cita) ==
    LET r == cancelar_cita(sistema, cita) IN
    [ret |-> r.ret,
     entregas |-> IF r.ret THEN notificar(sistema, MensajeCancelada(cita)) ELSE <<>>,
     citas |-> r.citas, objCita |-> r.objCita]

(***************************************************************************)
(* ReporteCitasPorDia                                                      *)
(***************************************************************************)
\* datetime.date()
date(dt) == [year |-> dt.year, month |-> dt.month, day |-> dt.day]

\* The line of the report for an appointment: the patient's name, strftime('%H:%M')
\* of its fecha_hora and its motivo
LineaReporte(cita) ==
    [nombre |-> objPaciente[objCita[cita].paciente].nombre,
     hora |-> DosDigitos(objCita[cita].fecha_hora.hour) \o <<":">>
                  \o DosDigitos(objCita[cita].fecha_hora.minute),
     motivo |-> objCita[cita].motivo]

\* Mutant of CitasDelDia: only the Programada appointments are listed
CitasDelDia_solo_programadas(sistema, fecha_objetivo) ==
    SelectSeq(citas[sistema],
              LAMBDA c : date(objCita[c].fecha_hora) = fecha_objetivo
                         /\ objCita[c].estado = "Programada")

\* The loop of generar: the appointments of the book whose date is fecha_objetivo
CitasDelDia(sistema, fecha_objetivo) ==
    SelectSeq(citas[sistema], LAMBDA c : date(objCita[c].fecha_hora) = fecha_objetivo)

\* The contenido generar builds: the heading's date text, the lines, whether the
\* no-appointments line is there, and the total
Contenido(fecha_str, delDia) ==
    [tipo |-> "reporte", fecha |-> fecha_str,
     lineas |-> [i \in 1..Len(delDia) |-> LineaReporte(delDia[i])],
     sin_citas |-> Len(delDia) = 0,
     total |-> Len(delDia)]

ContenidoDe(sistema, fecha_str, dt) ==
    IF ~dt.ok THEN [tipo |-> "Formato de fecha invalido"]
    ELSE Contenido(fecha_str, CitasDelDia(sistema, date(dt.valor)))

\* ReporteCitasPorDia.generar on the book sistema when the dialog answers fecha_str
ReporteCitasPorDia_generar(sistema, fecha_str) ==
    IF ~Verdadero(fecha_str) THEN [tipo |-> "Generacion de reporte cancelada"]
    ELSE ContenidoDe(sistema, fecha_str, strptime(fecha_str, FormatoFecha))

(***************************************************************************)
(* Initial states                                                          *)
(***************************************************************************)
\* The three services as constructed, before any call
Init ==
    /\ pacientes = <<>>
    /\ siguiente_id_paciente = 1
    /\ objPaciente = <<>>
    /\ citas = [s \in Sistemas |-> <<>>]
    /\ observadores = [s \in Sistemas |-> <<>>]
    /\ objCita = <<>>
    /\ Cita_contador_id = 0
    /\ registro_tratamientos = <<>>
    /\ objTratamiento = <<>>
    /\ Tratamiento_contador_id = 0
    /\ ult = Llamada("__init__", None, SinAviso, <<>>)

\* The application as started: the two sample patients registered and the
\* reminder observer attached to the application's SistemaCitas
InitApp ==
    /\ pacientes = <<1, 2>>
    /\ siguiente_id_paciente = 3
    /\ objPaciente = <<Paciente(1, JuanPerez, Telefono1, Direccion1, Fecha1, <<>>),
                       Paciente(2, AnaLopez, Telefono1, Direccion1, Fecha1, <<>>)>>
    /\ citas = [s \in Sistemas |-> <<>>]
    /\ observadores = [s \in Sistemas |-> IF s = "clinica" THEN <<"recordatorio">> ELSE <<>>]
    /\ objCita = <<>>
    /\ Cita_contador_id = 0
    /\ registro_tratamientos = <<>>
    /\ objTratamiento = <<>>
    /\ Tratamiento_contador_id = 0
    /\ ult = Llamada("__init__", None, SinAviso, <<>>)

(***************************************************************************)
(* Calls                                                                   *)
(***************************************************************************)
LlamarRegistrarPaciente(nombre, telefono, direccion, fecha_nacimiento, historial_medico) ==
    LET r == registrar_paciente(nombre, telefono, direccion, fecha_nacimiento, historial_medico) IN
    /\ r.ret # None => Len(objPaciente) < MaxPacientes
    /\ pacientes' = r.pacientes
    /\ siguiente_id_paciente' = r.siguiente
    /\ objPaciente' = r.objPaciente
    /\ ult' = Llamada("registrar_paciente", r.ret, r.aviso, <<>>)
    /\ UNCHANGED <<citas, observadores, objCita, Cita_contador_id, varsTratamientos>>

LlamarActualizarPaciente(id_paciente, nombre, telefono, direccion, fecha_nacimiento, historial_medico) ==
    LET r == actualizar_paciente(id_paciente, nombre, telefono, direccion, fecha_nacimiento,
                                 historial_medico) IN
    /\ objPaciente' = r.objPaciente
    /\ ult' = Llamada("actualizar_paciente", r.ret, SinAviso, <<>>)
    /\ UNCHANGED <<varsPacientes, citas, observadores, objCita, Cita_contador_id,
                   varsTratamientos>>

LlamarAdjuntar(sistema, observador) ==
    /\ observadores' = [observadores EXCEPT ![sistema] = adjuntar(sistema, observador)]
    /\ ult' = Llamada("adjuntar", None, SinAviso, <<>>)
    /\ UNCHANGED <<varsPacientes, objPaciente, varsCitas, varsTratamientos>>

LlamarSeparar(sistema, observador) ==
    LET r == separar(sistema, observador) IN
    /\ observadores' = [observadores EXCEPT ![sistema] = r.observadores]
    /\ ult' = [Llamada("separar", None, SinAviso, <<>>) EXCEPT !.excepcion = r.excepcion]
    /\ UNCHANGED <<varsPacientes, objPaciente, varsCitas, varsTratamientos>>

LlamarNotificar(sistema, mensaje) ==
    /\ ult' = Llamada("notificar", None, SinAviso, notificar(sistema, mensaje))
    /\ UNCHANGED <<varsPacientes, objPaciente, varsCitas, observadores, varsTratamientos>>

GenerarReporteCitasPorDia(sistema, fecha_str) ==
    /\ ult' = Llamada("ReporteCitasPorDia.generar",
                      ReporteCitasPorDia_generar(sistema, fecha_str), SinAviso, <<>>)
    /\ UNCHANGED <<varsPacientes, objPaciente, varsCitas, observadores, varsTratamientos>>

LlamarNotificarConBajas(sistema, mensaje) ==
    \E r \in {notificar_con_bajas(sistema, mensaje)} :
        /\ observadores' = [observadores EXCEPT ![sistema] = r.observadores]
        /\ ult' = [Llamada("notificar", None, SinAviso, r.entregas)
                      EXCEPT !.excepcion = r.excepcion]
        /\ UNCHANGED <<varsPacientes, objPaciente, varsCitas, varsTratamientos>>

LlamarAgendarCita(sistema, paciente, fecha_hora_str, motivo) ==
    LET r == agendar_cita(sistema, paciente, fecha_hora_str, motivo) IN
    /\ r.ret # None => Len(objCita) < MaxCitas
    /\ citas' = r.citas
    /\ objCita' = r.objCita
    /\ Cita_contador_id' = r.contador
    /\ ult' = Llamada("agendar_cita", r.ret, r.aviso, <<>>)
    /\ UNCHANGED <<varsPacientes, objPaciente, observadores, varsTratamientos>>

\* Mutant of the direct cancelar_cita call: the notificar that the source has
\* commented out is made
LlamarCancelarCita_notificando(sistema, cita) ==
    LET r == cancelar_cita(sistema, cita) IN
    /\ citas' = r.citas
    /\ objCita' = r.objCita
    /\ ult' = Llamada("cancelar_cita", r.ret, SinAviso,
                      IF r.ret THEN notificar(sistema, MensajeCancelada(cita)) ELSE <<>>)
    /\ UNCHANGED <<varsPacientes, objPaciente, observadores, Cita_contador_id,
                   varsTratamientos>>

LlamarCancelarCita(sistema, cita) ==
    LET r == cancelar_cita(sistema, cita) IN
    /\ citas' = r.citas
    /\ objCita' = r.objCita
    /\ ult' = Llamada("cancelar_cita", r.ret, SinAviso, <<>>)
    /\ UNCHANGED <<varsPacientes, objPaciente, observadores, Cita_contador_id,
                   varsTratamientos>>

EjecutarAgendarCitaComando(sistema, paciente, fecha_hora, motivo) ==
    LET r == AgendarCitaComando_ejecutar(sistema, paciente, fecha_hora, motivo) IN
    /\ r.cita # None => Len(objCita) < MaxCitas
    /\ citas' = r.citas
    /\ objCita' = r.objCita
    /\ Cita_contador_id' = r.contador
    /\ ult' = Llamada("AgendarCitaComando.ejecutar", r.ret, r.aviso, r.entregas)
    /\ UNCHANGED <<varsPacientes, objPaciente, observadores, varsTratamientos>>

EjecutarCancelarCitaComando(sistema, cita) ==
    LET r == CancelarCitaComando_ejecutar(sistema, cita) IN
    /\ citas' = r.citas
    /\ objCita' = r.objCita
    /\ ult' = Llamada("CancelarCitaComando.ejecutar", r.ret, SinAviso, r.entregas)
    /\ UNCHANGED <<varsPacientes, objPaciente, observadores, Cita_contador_id,
                   varsTratamientos>>

LlamarRegistrarTratamiento(paciente, fecha_str, descripcion, odontologo) ==
    LET r == registrar_tratamiento(paciente, fecha_str, descripcion, odontologo) IN
    /\ r.ret # None => Len(objTratamiento) < MaxTratamientos
    /\ objPaciente' = r.objPaciente
    /\ registro_tratamientos' = r.registro
    /\ objTratamiento' = r.objTratamiento
    /\ Tratamiento_contador_id' = r.contador
    /\ ult' = Llamada("registrar_tratamiento", r.ret, r.aviso, <<>>)
    /\ UNCHANGED <<varsPacientes, varsCitas, observadores>>

LlamarTratamientosMasComunes(top_n) ==
    /\ ult' = Llamada("obtener_tratamientos_mas_comunes",
                      obtener_tratamientos_mas_comunes(top_n), SinAviso, <<>>)
    /\ UNCHANGED <<varsPacientes, objPaciente, varsCitas, observadores, varsTratamientos>>

(***************************************************************************)
(* Specifications                                                          *)
(***************************************************************************)
\* Values a caller passes to actualizar_paciente
NombresDados == {Nulo, <<>>, AnaLopez}
TelefonosDados == {Nulo, Telefono2}
FechasDadas == {Nulo, FechaDiaPrimero}

Direccion2 == <<"A", "v", ".", " ", "2">>
Asma == <<"A", "s", "m", "a">>
\* Argument lists of actualizar_paciente after the id: nothing given, only empty
\* texts, each field alone, every field, and a mix of the three
ArgumentosActualizar ==
    {<<Nulo, Nulo, Nulo, Nulo, Nulo>>,
     <<<<>>, <<>>, <<>>, <<>>, <<>>>>,
     <<AnaLopez, Nulo, Nulo, Nulo, Nulo>>,
     <<Nulo, Telefono2, Nulo, Nulo, Nulo>>,
     <<Nulo, Nulo, Direccion2, Nulo, Nulo>>,
     <<Nulo, Nulo, Nulo, FechaDiaPrimero, Nulo>>,
     <<Nulo, Nulo, Nulo, Nulo, Asma>>,
     <<AnaLopez, Telefono2, Direccion2, FechaDiaPrimero, Asma>>,
     <<<<>>, Telefono2, <<>>, Nulo, Asma>>}

\* The registry alone: any sequence of registrations and updates
NextPacientes ==
    \/ \E n \in Nombres, f \in Fechas :
           LlamarRegistrarPaciente(n, Telefono1, Direccion1, f, <<>>)
    \/ \E id \in 1..(MaxPacientes + 1), n \in NombresDados, t \in TelefonosDados,
          f \in FechasDadas :
           LlamarActualizarPaciente(id, n, t, Nulo, f, Nulo)

SpecPacientes == Init /\ [][NextPacientes]_vars

\* The appointment books of the started application: direct calls and commands
NextCitas ==
    \/ \E s \in Sistemas, p \in RefsPaciente, t \in FechasHora, m \in Motivos :
           LlamarAgendarCita(s, p, t, m)
    \/ \E s \in Sistemas, c \in RefsCita : LlamarCancelarCita(s, c)
    \/ \E s \in Sistemas, p \in RefsPaciente, t \in FechasHora, m \in Motivos :
           EjecutarAgendarCitaComando(s, p, t, m)
    \/ \E s \in Sistemas, c \in RefsCita : EjecutarCancelarCitaComando(s, c)

SpecCitas == InitApp /\ [][NextCitas]_vars

\* The treatment ledger of the started application
NextTratamientos ==
    \E p \in RefsPaciente, f \in Fechas, d \in Descripciones, o \in Odontologos :
        LlamarRegistrarTratamiento(p, f, d, o)

SpecTratamientos == InitApp /\ [][NextTratamientos]_vars

\* Updates of the patients of the started application, the first of whom is
\* given treatments
NextActualizar ==
    \/ \E id \in 1..(MaxPacientes + 1), a \in ArgumentosActualizar :
           LlamarActualizarPaciente(id, a[1], a[2], a[3], a[4], a[5])
    \/ LlamarRegistrarTratamiento(1, Fecha1, DescLimpieza, DrSonrisas)

SpecActualizar == InitApp /\ [][NextActualizar]_vars

\* The two class-wide id counters: appointments made through both books and
\* treatments, with texts that are accepted and texts that are rejected
NextContadores ==
    \/ \E s \in Sistemas, p \in RefsPaciente, t \in {FechaHora1, FechaHora2, FechaHoraDiaPrimero} :
           LlamarAgendarCita(s, p, t, Limpieza)
    \/ \E p \in RefsPaciente, f \in {Fecha1, FechaInexistente} :
           LlamarRegistrarTratamiento(p, f, DescLimpieza, DrSonrisas)

SpecContadores == InitApp /\ [][NextContadores]_vars

\* The answers of the report's date dialog: none, empty, the two days (the second
\* without leading zeros) and a rejected text
RespuestasFecha == {Nulo, <<>>, FechaDia1, FechaDia2, FechaDiaPrimero}

\* The application's book and its appointments-by-day report
NextReporte ==
    \/ \E p \in RefsPaciente, t \in {FechaHora1, FechaHora2, FechaHoraOtroDia} :
           LlamarAgendarCita("clinica", p, t, Limpieza)
    \/ \E c \in RefsCita : LlamarCancelarCita("clinica", c)
    \/ \E f \in RespuestasFecha : GenerarReporteCitasPorDia("clinica", f)

SpecReporte == InitApp /\ [][NextReporte]_vars

\* The Observable of each SistemaCitas alone: subscribe, unsubscribe and notify
NextObservable ==
    \/ \E s \in Sistemas, o \in Oyentes :
           LlamarAdjuntar(s, o) /\ Len(observadores'[s]) <= MaxOyentes
    \/ \E s \in Sistemas, o \in Oyentes : LlamarSeparar(s, o)
    \/ \E s \in Sistemas, m \in Mensajes : LlamarNotificar(s, m)

SpecObservable == InitApp /\ [][NextObservable]_vars

\* The Observable of the application's book with observers that unsubscribe
\* while they are notified
NextConBajas ==
    \/ \E o \in Observadores \cup {"segundo"} \cup OyentesConBaja :
           LlamarAdjuntar("clinica", o) /\ Len(observadores'["clinica"]) <= MaxOyentes
    \/ \E o \in Observadores \cup {"segundo"} \cup OyentesConBaja :
           LlamarSeparar("clinica", o)
    \/ \E m \in Mensajes : LlamarNotificarConBajas("clinica", m)

SpecConBajas == InitApp /\ [][NextConBajas]_vars

\* The treatment ledger and its summary of the most common treatments
NextComunes ==
    \/ \E p \in RefsPaciente, d \in Descripciones, o \in Odontologos :
           LlamarRegistrarTratamiento(p, Fecha1, d, o)
    \/ \E top_n \in 0..MaxTopN : LlamarTratamientosMasComunes(top_n)

SpecComunes == InitApp /\ [][NextComunes]_vars

\* Every service operation, from the services as constructed, while at most
\* MaxObjetos objects exist
CabeEnHeap == Len(objPaciente) + Len(objCita) + Len(objTratamiento) <= MaxObjetos

\* The texts the calls of Next pass: one that parses and the two rejected ones
FechasNext == {Fecha1, FechaDiaPrimero, FechaInexistente}
FechasHoraNext == {FechaHora1, FechaHoraDiaPrimero, FechaHoraInexistente}

Next ==
    \/ \E n \in Nombres, f \in FechasNext :
           LlamarRegistrarPaciente(n, Telefono1, Direccion1, f, <<>>) /\ CabeEnHeap'
    \/ \E id \in 1..(MaxPacientes + 1), n \in {Nulo, AnaLopez} :
           LlamarActualizarPaciente(id, n, Nulo, Nulo, Nulo, Nulo)
    \/ \E s \in Sistemas, o \in Observadores : LlamarAdjuntar(s, o)
    \/ \E s \in Sistemas, o \in Observadores : LlamarSeparar(s, o)
    \/ \E s \in Sistemas, p \in RefsPaciente, t \in FechasHoraNext, m \in Motivos :
           LlamarAgendarCita(s, p, t, m) /\ CabeEnHeap'
    \/ \E s \in Sistemas, c \in RefsCita : LlamarCancelarCita(s, c)
    \/ \E s \in Sistemas, p \in RefsPaciente, t \in FechasHoraNext, m \in Motivos :
           EjecutarAgendarCitaComando(s, p, t, m) /\ CabeEnHeap'
    \/ \E s \in Sistemas, c \in RefsCita : EjecutarCancelarCitaComando(s, c)
    \/ \E p \in RefsPaciente, f \in FechasNext,
          d \in {DescLimpieza}, o \in Odontologos :
           LlamarRegistrarTratamiento(p, f, d, o) /\ CabeEnHeap'

Spec == Init /\ [][Next]_vars

(***************************************************************************)
(* Properties                                                              *)
(***************************************************************************)
EsPrefijo(a, b) == Len(a) <= Len(b) /\ SubSeq(b, 1, Len(a)) = a

\* Whether r lists, in the order of s, exactly the elements of s at the positions I
EsSubsecuencia(r, s, I) ==
    /\ Len(r) = Cardinality(I)
    /\ \A i \in I : r[Cardinality({j \in I : j <= i})] = s[i]

CitasEn(s) == {citas[s][i] : i \in 1..Len(citas[s])}

\* C1: in every reachable state no SistemaCitas holds two distinct appointments
\* that are both Programada and have the same fecha_hora.
C1_SinDobleReserva ==
    \A s \in Sistemas : \A i, j \in 1..Len(citas[s]) :
        (/\ i # j
         /\ objCita[citas[s][i]].estado = "Programada"
         /\ objCita[citas[s][j]].estado = "Programada")
        => objCita[citas[s][i]].fecha_hora # objCita[citas[s][j]].fecha_hora

\* A book holds a cancelled and a scheduled appointment of the same fecha_hora and
\* has just refused a further one.
C1_Testigo ==
    /\ ult.aviso = AvisoOcupado
    /\ \E s \in Sistemas : \E i, j \in 1..Len(citas[s]) :
        /\ objCita[citas[s][i]].fecha_hora = objCita[citas[s][j]].fecha_hora
        /\ objCita[citas[s][i]].estado = "Cancelada"
        /\ objCita[citas[s][j]].estado = "Programada"

\* C2: agendar_cita with a text that parses to the fecha_hora of a Programada
\* appointment of that book returns None with the occupied-slot error, for any
\* patient, and leaves the collection and every appointment as they were.
C2_HorarioOcupadoFalla ==
    [][ult'.op = "agendar_cita" =>
        \A s \in Sistemas, p \in RefsPaciente, t \in FechasHora, m \in Motivos :
            (/\ LlamarAgendarCita(s, p, t, m)
             /\ strptime(t, FormatoFechaHora).ok
             /\ \E c \in CitasEn(s) :
                   /\ objCita[c].estado = "Programada"
                   /\ objCita[c].fecha_hora = strptime(t, FormatoFechaHora).valor)
            => (/\ ult'.ret = None
                /\ ult'.aviso = AvisoOcupado
                /\ citas' = citas
                /\ objCita' = objCita)]_vars

\* A call was refused as occupied while the only appointment is Programada.
C2_Testigo ==
    /\ ult.op = "agendar_cita"
    /\ ult.ret = None
    /\ ult.aviso = AvisoOcupado
    /\ Len(objCita) = 1
    /\ objCita[1].estado = "Programada"

\* C3: agendar_cita at a fecha_hora at which the book holds a Cancelada appointment
\* and no Programada one succeeds: it appends a new Programada appointment of that
\* fecha_hora, and the cancelled ones stay in the collection as Cancelada.
C3_HorarioLiberado ==
    [][ult'.op = "agendar_cita" =>
        \A s \in Sistemas, p \in RefsPaciente, t \in FechasHora, m \in Motivos :
            (/\ LlamarAgendarCita(s, p, t, m)
             /\ strptime(t, FormatoFechaHora).ok
             /\ \E c \in CitasEn(s) :
                   /\ objCita[c].estado = "Cancelada"
                   /\ objCita[c].fecha_hora = strptime(t, FormatoFechaHora).valor
             /\ ~\E c \in CitasEn(s) :
                   /\ objCita[c].estado = "Programada"
                   /\ objCita[c].fecha_hora = strptime(t, FormatoFechaHora).valor)
            => (/\ ult'.ret # None
                /\ ult'.ret \notin RefsCita
                /\ citas'[s] = Append(citas[s], ult'.ret)
                /\ objCita'[ult'.ret].estado = "Programada"
                /\ objCita'[ult'.ret].fecha_hora = strptime(t, FormatoFechaHora).valor
                /\ objCita'[ult'.ret].paciente = p
                /\ \A c \in CitasEn(s) :
                       objCita[c].estado = "Cancelada" => objCita'[c].estado = "Cancelada")]_vars

\* A slot was taken again after its appointment was cancelled.
C3_Testigo ==
    /\ ult.op = "agendar_cita"
    /\ ult.ret # None
    /\ \E s \in Sistemas : \E i, j \in 1..Len(citas[s]) :
        /\ i < j
        /\ citas[s][j] = ult.ret
        /\ objCita[citas[s][i]].estado = "Cancelada"
        /\ objCita[citas[s][j]].estado = "Programada"
        /\ objCita[citas[s][i]].fecha_hora = objCita[citas[s][j]].fecha_hora

\* C4: every appointment is created Programada; the only change of an estado is
\* from Programada to Cancelada and is made by cancelar_cita (directly or through
\* the cancel command), so a Cancelada appointment stays Cancelada; no appointment
\* is ever Completada.
C4_CicloDeVida ==
    [][/\ Len(objCita') >= Len(objCita)
       /\ \A c \in RefsCita :
            objCita'[c].estado # objCita[c].estado =>
                /\ objCita[c].estado = "Programada"
                /\ objCita'[c].estado = "Cancelada"
                /\ ult'.op \in {"cancelar_cita", "CancelarCitaComando.ejecutar"}
       /\ \A c \in (Len(objCita) + 1)..Len(objCita') : objCita'[c].estado = "Programada"
       /\ \A c \in 1..Len(objCita') : objCita'[c].estado # "Completada"]_vars

\* An appointment is still Cancelada after a later appointment was created.
C4_Testigo ==
    /\ ult.op = "agendar_cita"
    /\ ult.ret # None
    /\ \E c \in RefsCita : objCita[c].estado = "Cancelada"
    /\ \E c \in RefsCita : objCita[c].estado = "Programada"

\* C5: every step of scheduling, cancelling or executing a command leaves each
\* book's collection as a prefix of the collection after it.
C5_SoloCrece ==
    [][\A s \in Sistemas : EsPrefijo(citas[s], citas'[s])]_vars

\* The cancel command ran and the cancelled appointment is still first in a
\* collection of two.
C5_Testigo ==
    /\ ult.op = "CancelarCitaComando.ejecutar"
    /\ ult.ret = TRUE
    /\ \E s \in Sistemas :
        /\ Len(citas[s]) = 2
        /\ objCita[citas[s][1]].estado = "Cancelada"

\* C6: the n-th patient of the registry has id n (ids are unique, increasing, start
\* at 1 and have no gaps), and a successful registration returns that patient.
C6_IdsConsecutivos ==
    /\ \A i \in 1..Len(pacientes) : objPaciente[pacientes[i]].id_paciente = i
    /\ (ult.op = "registrar_paciente" /\ ult.ret # None) =>
           /\ Len(pacientes) >= 1
           /\ ult.ret = pacientes[Len(pacientes)]

\* A second patient was registered after the first one was updated (its birth
\* date is one that only an update can store).
C6_Testigo ==
    /\ Len(pacientes) >= 2
    /\ ult.op = "registrar_paciente"
    /\ ult.ret = pacientes[2]
    /\ objPaciente[pacientes[1]].fecha_nacimiento = FechaDiaPrimero

NadaCambia ==
    UNCHANGED <<pacientes, siguiente_id_paciente, objPaciente, citas, observadores, objCita,
                Cita_contador_id, registro_tratamientos, objTratamiento,
                Tratamiento_contador_id>>

\* C7: registrar_paciente, agendar_cita and registrar_tratamiento called with a date
\* text that strptime rejects return None and change no registry, appointment or
\* treatment state nor any id counter.
C7_FechaInvalidaNoCambiaNada ==
    [][/\ ult'.op = "registrar_paciente" =>
            \A n \in Nombres, f \in Fechas :
                (/\ ~strptime(f, FormatoFecha).ok
                 /\ LlamarRegistrarPaciente(n, Telefono1, Direccion1, f, <<>>))
                => (ult'.ret = None /\ NadaCambia)
       /\ ult'.op = "agendar_cita" =>
            \A s \in Sistemas, p \in RefsPaciente, t \in FechasHora, m \in Motivos :
                (/\ ~strptime(t, FormatoFechaHora).ok
                 /\ LlamarAgendarCita(s, p, t, m))
                => (ult'.ret = None /\ NadaCambia)
       /\ ult'.op = "registrar_tratamiento" =>
            \A p \in RefsPaciente, f \in Fechas, d \in Descripciones, o \in Odontologos :
                (/\ ~strptime(f, FormatoFecha).ok
                 /\ LlamarRegistrarTratamiento(p, f, d, o))
                => (ult'.ret = None /\ NadaCambia)]_vars

\* A treatment with a rejected date was refused while an appointment and a
\* treatment exist.
C7_Testigo ==
    /\ ult.op = "registrar_tratamiento"
    /\ ult.ret = None
    /\ ult.aviso = AvisoFormato
    /\ Len(objCita) >= 1
    /\ Len(objTratamiento) >= 1

\* C8: cancelar_cita returns True exactly when the appointment is in the book's
\* collection, and then the appointment is Cancelada whatever it was; otherwise it
\* returns False and neither the appointment nor the collection changes.
C8_CancelarSegunPertenencia ==
    [][ult'.op = "cancelar_cita" =>
        \A s \in Sistemas, c \in RefsCita :
            LlamarCancelarCita(s, c) =>
                /\ ult'.ret = (c \in CitasEn(s))
                /\ (c \in CitasEn(s)) => objCita'[c].estado = "Cancelada"
                /\ (c \notin CitasEn(s)) =>
                       /\ objCita'[c].estado = objCita[c].estado
                       /\ citas' = citas]_vars

\* cancelar_cita returned False for an appointment of the other book, which is
\* still Programada, while this book's own appointment is Cancelada.
C8_Testigo ==
    /\ ult.op = "cancelar_cita"
    /\ ult.ret = FALSE
    /\ \E c \in RefsCita : objCita[c].estado = "Programada"
    /\ \E c \in RefsCita : objCita[c].estado = "Cancelada"

\* C9: obtener_citas_por_paciente lists, in collection order, exactly the book's
\* appointments of the patient that are Programada; an appointment that is
\* Cancelada is in no such list after any further step.
C9_CitasDelPaciente ==
    /\ [](\A s \in Sistemas, p \in RefsPaciente :
            EsSubsecuencia(obtener_citas_por_paciente(s, p), citas[s],
                {i \in 1..Len(citas[s]) :
                    /\ objCita[citas[s][i]].paciente = p
                    /\ objCita[citas[s][i]].estado = "Programada"}))
    /\ [][\A s \in Sistemas, p \in RefsPaciente, c \in RefsCita :
            (objCita[c].estado = "Cancelada" \/ objCita'[c].estado = "Cancelada")
            => ~EnSecuencia(c, obtener_citas_por_paciente(s, p)')]_vars

\* A patient has a cancelled appointment followed by a scheduled one in the same
\* book; only the second is listed.
C9_Testigo ==
    \E s \in Sistemas, p \in RefsPaciente :
        /\ Len(citas[s]) = 2
        /\ objCita[citas[s][1]].paciente = p
        /\ objCita[citas[s][2]].paciente = p
        /\ objCita[citas[s][1]].estado = "Cancelada"
        /\ obtener_citas_por_paciente(s, p) = <<citas[s][2]>>

\* C10: each patient's history is the subsequence of the ledger whose treatments
\* reference that patient; a successful registrar_tratamiento appends the one new
\* treatment to the ledger and to its patient's history; both only grow.
C10_HistorialYRegistro ==
    /\ [](\A p \in RefsPaciente :
            EsSubsecuencia(obtener_tratamientos_por_paciente(p), registro_tratamientos,
                {i \in 1..Len(registro_tratamientos) :
                    objTratamiento[registro_tratamientos[i]].paciente = p}))
    /\ [][/\ EsPrefijo(registro_tratamientos, registro_tratamientos')
          /\ \A p \in RefsPaciente :
                EsPrefijo(objPaciente[p].tratamientos, objPaciente'[p].tratamientos)
          /\ (ult'.op = "registrar_tratamiento" /\ ult'.ret # None) =>
                /\ ult'.ret \notin RefsTratamiento
                /\ registro_tratamientos' = Append(registro_tratamientos, ult'.ret)
                /\ \A p \in RefsPaciente :
                      objPaciente'[p].tratamientos =
                          IF objTratamiento'[ult'.ret].paciente = p
                          THEN Append(objPaciente[p].tratamientos, ult'.ret)
                          ELSE objPaciente[p].tratamientos]_vars

\* The ledger holds treatments of two patients interleaved.
C10_Testigo ==
    /\ Len(registro_tratamientos) = 3
    /\ objTratamiento[registro_tratamientos[1]].paciente = 1
    /\ objTratamiento[registro_tratamientos[2]].paciente = 2
    /\ objTratamiento[registro_tratamientos[3]].paciente = 1
    /\ Len(objPaciente[1].tratamientos) = 2

\* The normalized description of the i-th treatment of the ledger
DescNormal(i) == lower(strip(objTratamiento[registro_tratamientos[i]].descripcion))

ClavesRegistro == {DescNormal(i) : i \in 1..Len(registro_tratamientos)}

VecesEnRegistro(k) == Cardinality({i \in 1..Len(registro_tratamientos) : DescNormal(i) = k})

PrimeraVez(k) ==
    CHOOSE i \in 1..Len(registro_tratamientos) :
        DescNormal(i) = k /\ \A j \in 1..(i - 1) : DescNormal(j) # k

\* Key a is listed before key b: more treatments, or as many and seen first
VaAntes(a, b) ==
    \/ VecesEnRegistro(a) > VecesEnRegistro(b)
    \/ VecesEnRegistro(a) = VecesEnRegistro(b) /\ PrimeraVez(a) < PrimeraVez(b)

\* r is the summary of the ledger cut to top_n entries
EsResumen(r, top_n) ==
    /\ Len(r) = IF top_n < Cardinality(ClavesRegistro) THEN top_n
                ELSE Cardinality(ClavesRegistro)
    /\ \A i \in 1..Len(r) :
          /\ r[i].clave \in ClavesRegistro
          /\ r[i].cuenta = VecesEnRegistro(r[i].clave)
          /\ Cardinality({a \in ClavesRegistro : VaAntes(a, r[i].clave)}) = i - 1

\* C11: obtener_tratamientos_mas_comunes(top_n), top_n >= 0, returns the normalized
\* (stripped, lower-case) descriptions of the ledger with the number of treatments
\* of each, by count descending and ties by first occurrence in the ledger, cut to
\* the first min(top_n, number of keys) entries; it is empty for an empty ledger
\* and the call changes no state.
C11_MasComunes ==
    [][ult'.op = "obtener_tratamientos_mas_comunes" =>
        \A top_n \in 0..MaxTopN :
            LlamarTratamientosMasComunes(top_n) =>
                /\ EsResumen(ult'.ret, top_n)
                /\ registro_tratamientos = <<>> => ult'.ret = <<>>
                /\ NadaCambia]_vars

\* The ledger is "Filling", "Cleaning", "cleaning " and the summary of the top two
\* is cleaning: 2, filling: 1.
C11_Testigo ==
    /\ ult.op = "obtener_tratamientos_mas_comunes"
    /\ Len(registro_tratamientos) = 3
    /\ objTratamiento[registro_tratamientos[1]].descripcion = DescEmpaste
    /\ objTratamiento[registro_tratamientos[2]].descripcion = DescLimpieza
    /\ objTratamiento[registro_tratamientos[3]].descripcion = DescLimpiezaMin
    /\ ult.ret = <<[clave |-> <<"c", "l", "e", "a", "n", "i", "n", "g">>, cuenta |-> 2],
                   [clave |-> <<"f", "i", "l", "l", "i", "n", "g">>, cuenta |-> 1]>>

\* How many of the deliveries went to the observer o
EntregasA(entregas, o) == Cardinality({i \in 1..Len(entregas) : entregas[i].observador = o})

\* C12: after any sequence of adjuntar and separar no observer is twice in a list;
\* adjuntar of an observer that is already subscribed leaves the list as it was,
\* and notificar delivers the text exactly once to each subscribed observer.
C12_AdjuntarIdempotente ==
    /\ [](\A s \in Sistemas : \A i, j \in 1..Len(observadores[s]) :
            i # j => observadores[s][i] # observadores[s][j])
    /\ [][/\ ult'.op = "adjuntar" =>
                \A s \in Sistemas, o \in Oyentes :
                    (EnSecuencia(o, observadores[s]) /\ LlamarAdjuntar(s, o))
                    => observadores' = observadores
          /\ ult'.op = "notificar" =>
                \A s \in Sistemas, m \in Mensajes :
                    LlamarNotificar(s, m) =>
                        \A o \in Oyentes :
                            EntregasA(ult'.entregas, o) =
                                IF EnSecuencia(o, observadores[s]) THEN 1 ELSE 0]_vars

\* notificar delivered once to the reminder while the second book, to which no
\* one was subscribed at the start, lists it with another observer.
C12_Testigo ==
    /\ ult.op = "notificar"
    /\ observadores["clinica"] = <<"recordatorio">>
    /\ Len(observadores["otra"]) = 2
    /\ EntregasA(ult.entregas, "recordatorio") = 1
    /\ Len(ult.entregas) = 1

\* The position of the observer o in the list of the book s
PosicionDe(s, o) == CHOOSE i \in 1..Len(observadores[s]) : observadores[s][i] = o

\* C13: notificar delivers the text exactly once to every observer subscribed at the
\* call and to no other, in the order of the list, and changes no state; the order
\* of the list is the order of subscription: adjuntar of an absent observer puts
\* it at the end, also when it was subscribed and removed before.
C13_NotificarEnOrden ==
    [][/\ ult'.op = "notificar" =>
            \A s \in Sistemas, m \in Mensajes :
                LlamarNotificar(s, m) =>
                    /\ Len(ult'.entregas) = Len(observadores[s])
                    /\ \A i \in 1..Len(ult'.entregas) :
                          /\ ult'.entregas[i].mensaje = m
                          /\ EnSecuencia(ult'.entregas[i].observador, observadores[s])
                    /\ \A i, j \in 1..Len(ult'.entregas) :
                          i < j => PosicionDe(s, ult'.entregas[i].observador)
                                     < PosicionDe(s, ult'.entregas[j].observador)
                    /\ NadaCambia
       /\ ult'.op = "adjuntar" =>
            \A s \in Sistemas, o \in Oyentes :
                (~EnSecuencia(o, observadores[s]) /\ LlamarAdjuntar(s, o))
                => observadores'[s] = Append(observadores[s], o)]_vars

\* The reminder, subscribed first at the start, is now last of three and was
\* delivered to last.
C13_Testigo ==
    /\ ult.op = "notificar"
    /\ Len(ult.entregas) = 3
    /\ observadores["clinica"] = <<"segundo", "tercero", "recordatorio">>
    /\ ult.entregas[1].observador = "segundo"
    /\ ult.entregas[3].observador = "recordatorio"
    /\ ult.entregas[3].mensaje = Aviso1

\* C14: AgendarCitaComando.ejecutar returns True exactly when its agendar_cita call
\* created an appointment, which is then the last of the book, and in that case
\* delivers the message naming the patient and the date-time text exactly once to
\* each observer of the book; when agendar_cita fails (rejected text or occupied
\* slot) it returns False, delivers nothing and creates nothing.
C14_AgendarComando ==
    [][ult'.op = "AgendarCitaComando.ejecutar" =>
        \A s \in Sistemas, p \in RefsPaciente, t \in FechasHora, m \in Motivos :
            EjecutarAgendarCitaComando(s, p, t, m) =>
                /\ ult'.ret = (Len(objCita') = Len(objCita) + 1)
                /\ ult'.ret = (citas'[s] # citas[s])
                /\ ult'.ret =>
                      /\ citas'[s] = Append(citas[s], Len(objCita'))
                      /\ Len(ult'.entregas) = Len(observadores[s])
                      /\ \A o \in Observadores :
                            EntregasA(ult'.entregas, o) =
                                IF EnSecuencia(o, observadores[s]) THEN 1 ELSE 0
                      /\ \A i \in 1..Len(ult'.entregas) :
                            /\ ult'.entregas[i].mensaje.nombre = objPaciente[p].nombre
                            /\ ult'.entregas[i].mensaje.fecha_hora = t
                /\ ~ult'.ret =>
                      /\ ult'.entregas = <<>>
                      /\ ult'.aviso \in {AvisoFormato, AvisoOcupado}
                      /\ citas' = citas
                      /\ objCita' = objCita]_vars

\* The command scheduled a second appointment in the application's book and the
\* reminder got one message.
C14_Testigo ==
    /\ ult.op = "AgendarCitaComando.ejecutar"
    /\ ult.ret = TRUE
    /\ Len(citas["clinica"]) = 2
    /\ Len(ult.entregas) = 1
    /\ ult.entregas[1].observador = "recordatorio"

\* C15: a direct call of agendar_cita or cancelar_cita makes no delivery to any
\* observer, whether it succeeds or fails, and leaves the observer lists alone.
C15_SinNotificacionDirecta ==
    [][ult'.op \in {"agendar_cita", "cancelar_cita"} =>
        /\ \A o \in Observadores : EntregasA(ult'.entregas, o) = 0
        /\ ult'.entregas = <<>>
        /\ observadores' = observadores]_vars

\* A direct cancelar_cita succeeded on an appointment of the application's book,
\* which has the reminder subscribed, and nothing was delivered.
C15_Testigo ==
    /\ ult.op = "cancelar_cita"
    /\ ult.ret = TRUE
    /\ observadores["clinica"] = <<"recordatorio">>
    /\ Len(citas["clinica"]) >= 1
    /\ Len(citas["otra"]) = 0
    /\ objCita[citas["clinica"][1]].estado = "Cancelada"
    /\ ult.entregas = <<>>

\* The value of a field after an update that was given v for it
TrasActualizar(anterior, v) == IF v # Nulo /\ Len(v) > 0 THEN v ELSE anterior

\* C16: actualizar_paciente on the id of a registered patient returns True and
\* overwrites exactly the fields among nombre, telefono, direccion,
\* fecha_nacimiento and historial_medico whose given value is neither None nor
\* empty; the patient's id and treatment history, every other patient and the
\* registry stay as they were; on an id of no patient it returns False and changes
\* nothing.
C16_ActualizarPaciente ==
    [][ult'.op = "actualizar_paciente" =>
        \A id \in 1..(MaxPacientes + 1), a \in ArgumentosActualizar :
            LlamarActualizarPaciente(id, a[1], a[2], a[3], a[4], a[5]) =>
                /\ pacientes' = pacientes
                /\ siguiente_id_paciente' = siguiente_id_paciente
                /\ Len(objPaciente') = Len(objPaciente)
                /\ ult'.ret = (\E p \in RefsPaciente :
                                  EnSecuencia(p, pacientes) /\ objPaciente[p].id_paciente = id)
                /\ \A p \in RefsPaciente :
                      IF EnSecuencia(p, pacientes) /\ objPaciente[p].id_paciente = id
                      THEN objPaciente'[p] =
                             [id_paciente |-> objPaciente[p].id_paciente,
                              nombre |-> TrasActualizar(objPaciente[p].nombre, a[1]),
                              telefono |-> TrasActualizar(objPaciente[p].telefono, a[2]),
                              direccion |-> TrasActualizar(objPaciente[p].direccion, a[3]),
                              fecha_nacimiento |->
                                  TrasActualizar(objPaciente[p].fecha_nacimiento, a[4]),
                              historial_medico |->
                                  TrasActualizar(objPaciente[p].historial_medico, a[5]),
                              tratamientos |-> objPaciente[p].tratamientos]
                      ELSE objPaciente'[p] = objPaciente[p]
                /\ UNCHANGED <<varsCitas, observadores, varsTratamientos>>]_vars

\* The first patient, who has a treatment, got a new phone and address and kept
\* the name; the second patient is as registered.
C16_Testigo ==
    /\ ult.op = "actualizar_paciente"
    /\ ult.ret = TRUE
    /\ objPaciente[1].nombre = JuanPerez
    /\ objPaciente[1].telefono = Telefono2
    /\ objPaciente[1].direccion = Direccion2
    /\ objPaciente[1].id_paciente = 1
    /\ Len(objPaciente[1].tratamientos) = 1
    /\ objPaciente[2] = Paciente(2, AnaLopez, Telefono1, Direccion1, Fecha1, <<>>)

\* C17: the appointments have the ids 1, 2, ... in the order of their creation,
\* whatever book they were made through, and the counter is the number of
\* appointments created, so a failed agendar_cita takes no id; the same holds for
\* the treatments with their own counter; registrar_tratamiento leaves the
\* appointment counter alone and agendar_cita the treatment counter.
C17_ContadoresDeId ==
    /\ [](/\ Cita_contador_id = Len(objCita)
          /\ \A c \in RefsCita : objCita[c].id_cita = c
          /\ Tratamiento_contador_id = Len(objTratamiento)
          /\ \A t \in RefsTratamiento : objTratamiento[t].id_tratamiento = t)
    /\ [][/\ ult'.op = "registrar_tratamiento" => UNCHANGED <<Cita_contador_id, objCita>>
          /\ ult'.op = "agendar_cita" =>
                /\ UNCHANGED <<Tratamiento_contador_id, objTratamiento>>
                /\ Cita_contador_id' = IF ult'.ret = None THEN Cita_contador_id
                                        ELSE Cita_contador_id + 1]_vars

\* After a treatment and refused calls, the two books hold one appointment each,
\* with the ids 1 and 2, and the last agendar_cita was refused.
C17_Testigo ==
    /\ ult.op = "agendar_cita"
    /\ ult.ret = None
    /\ Len(citas["clinica"]) = 1
    /\ Len(citas["otra"]) = 1
    /\ objCita[citas["otra"][1]].id_cita = 1
    /\ objCita[citas["clinica"][1]].id_cita = 2
    /\ Tratamiento_contador_id = 1
    /\ Cita_contador_id = 2

\* The positions in the book s of the appointments on the day of the datetime dt
PosicionesDelDia(s, dt) ==
    {i \in 1..Len(citas[s]) :
        /\ objCita[citas[s][i]].fecha_hora.year = dt.year
        /\ objCita[citas[s][i]].fecha_hora.month = dt.month
        /\ objCita[citas[s][i]].fecha_hora.day = dt.day}

\* C18: for a date text that strptime accepts, the report lists, in the order of the
\* collection, exactly the book's appointments on that day, the Cancelada ones
\* included; the total is the number of lines; generating changes no state.
C18_ReportePorDia ==
    [][ult'.op = "ReporteCitasPorDia.generar" =>
        \A f \in RespuestasFecha \ {Nulo, <<>>} :
            (/\ strptime(f, FormatoFecha).ok
             /\ GenerarReporteCitasPorDia("clinica", f))
            => /\ ult'.ret.tipo = "reporte"
               /\ Len(ult'.ret.lineas) =
                      Cardinality(PosicionesDelDia("clinica", strptime(f, FormatoFecha).valor))
               /\ \A i \in PosicionesDelDia("clinica", strptime(f, FormatoFecha).valor) :
                      ult'.ret.lineas[Cardinality(
                          {j \in PosicionesDelDia("clinica", strptime(f, FormatoFecha).valor) :
                              j <= i})]
                        = LineaReporte(citas["clinica"][i])
               /\ ult'.ret.total = Len(ult'.ret.lineas)
               /\ NadaCambia]_vars

\* The report of a day lists its two appointments, 10:00 then 14:00, the first
\* of which is Cancelada.
C18_Testigo ==
    /\ ult.op = "ReporteCitasPorDia.generar"
    /\ ult.ret.tipo = "reporte"
    /\ ult.ret.total = 2
    /\ ult.ret.lineas[1].hora = <<"1", "0", ":", "0", "0">>
    /\ ult.ret.lineas[2].hora = <<"1", "4", ":", "0", "0">>
    /\ objCita[citas["clinica"][1]].estado = "Cancelada"

\* C19: CancelarCitaComando.ejecutar on an appointment of the book returns True and
\* delivers the cancellation message, naming the appointment's patient and
\* fecha_hora, exactly once to each observer of the book, also when the
\* appointment is already Cancelada; on an appointment that is not in the book it
\* returns False, delivers nothing and changes no appointment.
C19_CancelarComando ==
    [][ult'.op = "CancelarCitaComando.ejecutar" =>
        \A s \in Sistemas, c \in RefsCita :
            EjecutarCancelarCitaComando(s, c) =>
                /\ ult'.ret = (c \in CitasEn(s))
                /\ (c \in CitasEn(s)) =>
                      /\ objCita'[c].estado = "Cancelada"
                      /\ Len(ult'.entregas) = Len(observadores[s])
                      /\ \A o \in Observadores :
                            EntregasA(ult'.entregas, o) =
                                IF EnSecuencia(o, observadores[s]) THEN 1 ELSE 0
                      /\ \A i \in 1..Len(ult'.entregas) :
                            /\ ult'.entregas[i].mensaje.nombre =
                                   objPaciente[objCita[c].paciente].nombre
                            /\ ult'.entregas[i].mensaje.fecha_hora =
                                   str_datetime(objCita[c].fecha_hora)
                /\ (c \notin CitasEn(s)) =>
                      /\ ult'.entregas = <<>>
                      /\ objCita' = objCita
                /\ citas' = citas]_vars

\* The command returned True and notified for the first patient's appointment,
\* which was Cancelada before: the second patient's Programada appointment holds
\* its slot and so was made after the cancelling.
C19_Testigo ==
    /\ ult.op = "CancelarCitaComando.ejecutar"
    /\ ult.ret = TRUE
    /\ citas["clinica"] = <<1, 2>>
    /\ objCita[1].estado = "Cancelada"
    /\ objCita[2].estado = "Programada"
    /\ objCita[1].fecha_hora = objCita[2].fecha_hora
    /\ objCita[1].paciente = 1
    /\ objCita[2].paciente = 2
    /\ Len(ult.entregas) = 1
    /\ ult.entregas[1].mensaje.nombre = JuanPerez

\* C20: separar of a subscribed observer raises nothing and leaves the list without
\* that observer, the others in their order, so that notificar makes no delivery
\* to it; separar of an observer that is not subscribed raises ValueError and
\* leaves the list as it was; the lists of the other books are not touched.
C20_Separar ==
    [][/\ ult'.op = "separar" =>
            \A s \in Sistemas, o \in Oyentes :
                LlamarSeparar(s, o) =>
                    /\ \A z \in Sistemas \ {s} : observadores'[z] = observadores[z]
                    /\ EnSecuencia(o, observadores[s]) =>
                          /\ ult'.excepcion = ""
                          /\ observadores'[s] = SelectSeq(observadores[s], LAMBDA x : x # o)
                          /\ Len(observadores'[s]) = Len(observadores[s]) - 1
                    /\ ~EnSecuencia(o, observadores[s]) =>
                          /\ ult'.excepcion = "ValueError"
                          /\ observadores'[s] = observadores[s]
       /\ ult'.op = "notificar" =>
            \A s \in Sistemas, m \in Mensajes :
                LlamarNotificar(s, m) =>
                    \A o \in Oyentes :
                        ~EnSecuencia(o, observadores[s]) => EntregasA(ult'.entregas, o) = 0]_vars

\* separar raised ValueError: every book that has observers still has them, and
\* the application's book has lost the reminder it started with.
C20_Testigo ==
    /\ ult.op = "separar"
    /\ ult.excepcion = "ValueError"
    /\ observadores["clinica"] = <<"segundo", "tercero">>
    /\ observadores["otra"] = <<"recordatorio">>

\* C21: when an observer's actualizar calls separar while notificar is delivering,
\* every observer that was subscribed when notificar began and is subscribed when
\* it returns has received the text exactly once.
C21_NingunoOmitido ==
    [][ult'.op = "notificar" =>
        \A m \in Mensajes :
            (LlamarNotificarConBajas("clinica", m) /\ ult'.excepcion = "") =>
                \A o \in Observadores \cup {"segundo"} \cup OyentesConBaja :
                    (/\ EnSecuencia(o, observadores["clinica"])
                     /\ EnSecuencia(o, observadores'["clinica"]))
                    => EntregasA(ult'.entregas, o) = 1]_vars

\* C21, what the loop does: each delivery goes to an observer that was subscribed
\* when notificar began, in the order of that list and at most once to each; the
\* observers left in the list were in it before, in the same order; when no
\* subscribed observer calls separar, every one of them is delivered to.
C21_EntregasDelRecorrido ==
    [][ult'.op = "notificar" =>
        \A m \in Mensajes :
            LlamarNotificarConBajas("clinica", m) =>
                /\ \A i \in 1..Len(ult'.entregas) :
                      /\ EnSecuencia(ult'.entregas[i].observador, observadores["clinica"])
                      /\ ult'.entregas[i].mensaje = m
                /\ \A i, j \in 1..Len(ult'.entregas) :
                      i < j => PosicionDe("clinica", ult'.entregas[i].observador)
                                 < PosicionDe("clinica", ult'.entregas[j].observador)
                /\ observadores'["clinica"] =
                      SelectSeq(observadores["clinica"],
                                LAMBDA x : EnSecuencia(x, observadores'["clinica"]))
                /\ (\A i \in 1..Len(observadores["clinica"]) :
                        BajaDe(observadores["clinica"][i]) = "")
                   => /\ ult'.entregas = notificar("clinica", m)
                      /\ ult'.excepcion = ""
                      /\ observadores' = observadores]_vars

\* notificar returned without an exception after the self-removing observer, first
\* in the list, was delivered to and removed itself; the reminder, which followed
\* it and is still subscribed, got nothing.
C21_Testigo ==
    /\ ult.op = "notificar"
    /\ ult.excepcion = ""
    /\ Len(ult.entregas) = 1
    /\ ult.entregas[1].observador = "baja_propia"
    /\ observadores["clinica"] = <<"recordatorio">>

====
